---- MODULE Spec2Model ----
(***************************************************************************)
(* A model of the `resolution` crate: calendar periods addressed by a      *)
(* monotonic i64 index (Minutes<N>, Day, Week<D>, Month, Year), the        *)
(* contiguous range algebra TimeRange built on them, and the conversions   *)
(* between kinds that go through exact UTC instants.                       *)
(*                                                                         *)
(* Values                                                                  *)
(*   NaiveDate      an integer: days since 1970-01-01 (proleptic Gregorian)*)
(*   DateTime<Utc>  an integer: seconds since 1970-01-01T00:00:00Z         *)
(*   kind           [name |-> "Minutes"|"Day"|"Week"|"Month"|"Year",       *)
(*                   par  |-> N for Minutes<N>, the start weekday          *)
(*                            (days from Monday) for Week<D>, 0 otherwise] *)
(*   period         [kind |-> kind, idx |-> monotonic index]               *)
(*   TimeRange      [start |-> period, len |-> NonZeroU64]                 *)
(*   Option<T>      [some |-> FALSE]  or  [some |-> TRUE, val |-> T]       *)
(***************************************************************************)
EXTENDS Integers, Sequences, FiniteSets, TLC

VARIABLES
    pc,        \* "call" before the operation of `call` has run, "done" after
    call,      \* the operation called and its arguments
    ret,       \* what the calls returned
    data,      \* Cache::data, a map from keys to values
    requests,  \* Cache::requests, a set of keys
    iter       \* the TimeRangeIter in use, or None

vars == <<pc, call, ret, data, requests, iter>>

(***************************************************************************)
(* Bounds of the model.                                                    *)
(***************************************************************************)
\* from_map is tried on every subset of -MapBelow .. MapAbove
MapBelow == 2
MapAbove == 4
\* ranges start at most StartSpread periods after the earliest start tried
StartSpread == 3
\* ranges of the range algebra have 1 .. MaxLen periods
MaxLen == 3
\* years FirstYear .. FirstYear + YearSpan are used (2020 and 2024 are leap)
FirstYear == 2019
YearSpan == 6
\* ranges of whole years have 1 .. MaxYearLen years
MaxYearLen == 2
\* day ranges tried by rescale have 1 .. MaxDayLen days
MaxDayLen == 33
\* periods tried by contains lie within Slack periods of a boundary of the range
Slack == 2
\* rescale is applied up to RescaleDepth times in a row
RescaleDepth == 2

(***************************************************************************)
(* Integer helpers: Rust's `/` truncates toward zero, div_euclid and       *)
(* rem_euclid floor (for a positive divisor).                              *)
(***************************************************************************)
TruncDiv(a, b) == IF a >= 0 THEN a \div b ELSE -((-a) \div b)

div_euclid(a, b) == a \div b

rem_euclid(a, b) == a % b

Max(a, b) == IF a >= b THEN a ELSE b

Min(a, b) == IF a <= b THEN a ELSE b

None == [some |-> FALSE]

Some(v) == [some |-> TRUE, val |-> v]

(***************************************************************************)
(* chrono's calendar: NaiveDate <-> (year, month, day), and timestamps.    *)
(***************************************************************************)
\* NaiveDate::from_ymd_opt(y, m, d), for a valid date: the days of whole 400-year
\* eras (146097 days each, counted from 0000-03-01, 719468 days before 1970-01-01)
\* plus the day of the era
from_ymd_opt(y, m, d) ==
    LET yy  == IF m <= 2 THEN y - 1 ELSE y
        era == yy \div 400
        yoe == yy - era * 400
        mp  == IF m > 2 THEN m - 3 ELSE m + 9
        doy == (153 * mp + 2) \div 5 + d - 1
        doe == yoe * 365 + yoe \div 4 - yoe \div 100 + doy
    IN  era * 146097 + doe - 719468

\* the (year, month, day) of a NaiveDate
civil(date) ==
    LET z   == date + 719468
        era == z \div 146097
        doe == z - era * 146097
        yoe == (doe - doe \div 1460 + doe \div 36524 - doe \div 146096) \div 365
        doy == doe - (365 * yoe + yoe \div 4 - yoe \div 100)
        mp  == (5 * doy + 2) \div 153
        d   == doy - (153 * mp + 2) \div 5 + 1
        m   == IF mp < 10 THEN mp + 3 ELSE mp - 9
    IN  [year |-> IF m <= 2 THEN yoe + era * 400 + 1 ELSE yoe + era * 400,
         month |-> m, day |-> d]

\* Datelike::year, Datelike::month, Datelike::month0, Datelike::day
year_of(date) == civil(date).year

month_of(date) == civil(date).month

month0_of(date) == civil(date).month - 1

day_of(date) == civil(date).day

\* date.and_time(NaiveTime::MIN).and_utc().timestamp()
timestamp(date) == date * 86400

\* DateTime<Utc>::date_naive()
date_naive(ts) == ts \div 86400

(***************************************************************************)
(* Resolution kinds.                                                       *)
(***************************************************************************)
MinutesK(n) == [name |-> "Minutes", par |-> n]

Minute == MinutesK(1)

FiveMinute == MinutesK(5)

HalfHour == MinutesK(30)

Hour == MinutesK(60)

DayK == [name |-> "Day", par |-> 0]

WeekK(wd) == [name |-> "Week", par |-> wd]

MonthK == [name |-> "Month", par |-> 0]

QuarterK == [name |-> "Quarter", par |-> 0]

YearK == [name |-> "Year", par |-> 0]

\* chrono::Weekday::num_days_from_monday of the seven StartDay markers
StartDays == 0 .. 6

P(kind, idx) == [kind |-> kind, idx |-> idx]

\* the unit-span rank behind the LongerThan / LongerThanOrEqual impls
Rank(kind) ==
    CASE kind = Minute -> 1
      [] kind = FiveMinute -> 2
      [] kind = HalfHour -> 3
      [] kind = Hour -> 4
      [] kind.name = "Day" -> 5
      [] kind.name = "Week" -> 6
      [] kind.name = "Month" -> 7
      [] kind.name = "Quarter" -> 8
      [] kind.name = "Year" -> 9

LongerThanOrEqual(long, short) == Rank(long) >= Rank(short)

LongerThan(long, short) == Rank(long) > Rank(short)

(***************************************************************************)
(* Minutes<N>                                                              *)
(***************************************************************************)
NUM_SECS == 60

\* impl From<DateTime<Utc>> for Minutes<N>
Minutes_from(n, ts) == div_euclid(ts, 60 * n)

Minutes_start_datetime(n, idx) == idx * NUM_SECS * n

Minutes_first_on_day(n, day) == TruncDiv(timestamp(day), n * NUM_SECS)

(***************************************************************************)
(* Day                                                                     *)
(***************************************************************************)
Day_base == from_ymd_opt(0, 1, 1)

Day_start(idx) == Day_base + idx

Day_from_date(date) == date - Day_base

\* impl<D: Datelike> From<D> for Day
Day_from(date) == Day_from_date(from_ymd_opt(year_of(date), month_of(date), day_of(date)))

(***************************************************************************)
(* Week<D>                                                                 *)
(***************************************************************************)
\* the same Monday for every start day
Week_base_Monday(wd) == from_ymd_opt(2021, 1, 4)

Week_base(wd) == from_ymd_opt(2021, 1, 4 + wd)

Week_start(wd, n) == Week_base(wd) + n * 7

Week_from_date(wd, date) == TruncDiv(date - Week_base(wd), 7)

(***************************************************************************)
(* Month                                                                   *)
(***************************************************************************)
\* the year by truncating division, which is a year late below index 0
Month_start_Truncating(idx) == from_ymd_opt(TruncDiv(idx, 12), 1 + rem_euclid(idx, 12), 1)

\* impl DateResolution for Month: start
Month_start(idx) == from_ymd_opt(div_euclid(idx, 12), 1 + rem_euclid(idx, 12), 1)

Month_from_date_Month1(d) == month_of(d) + year_of(d) * 12

\* impl DateResolution for Month: from_date
Month_from_date(d) == month0_of(d) + year_of(d) * 12

(***************************************************************************)
(* Quarter                                                                 *)
(***************************************************************************)
\* Quarter::quarter_num, 1 to 4
Quarter_quarter_num(idx) == 1 + rem_euclid(idx, 4)

\* impl DateResolution for Quarter: start
Quarter_start(idx) ==
    from_ymd_opt(div_euclid(idx, 4), Quarter_quarter_num(idx) * 3 - 2, 1)

\* the quarter of the year a date falls in, 1 to 4
quarter_num(d) == TruncDiv(month_of(d) - 1, 3) + 1

\* impl From<NaiveDate> for Quarter
Quarter_from(d) == quarter_num(d) - 1 + year_of(d) * 4

(***************************************************************************)
(* Year                                                                    *)
(***************************************************************************)
Year_start(idx) == from_ymd_opt(idx, 1, 1)

Year_from_date(d) == year_of(d)

(***************************************************************************)
(* The traits, dispatched on the kind.                                     *)
(***************************************************************************)
to_monotonic(p) == p.idx

\* the index read as unsigned
from_monotonic_Unsigned(kind, idx) == P(kind, IF idx < 0 THEN -idx ELSE idx)

from_monotonic(kind, idx) == P(kind, idx)

\* a.between(b)
between(a, b) == b.idx - a.idx

succ_n(p, n) == P(p.kind, p.idx + n)

\* a pred_n that adds, as succ_n does
pred_n_Adds(p, n) == P(p.kind, p.idx + n)

pred_n(p, n) == P(p.kind, p.idx - n)

succ(p) == succ_n(p, 1)

pred(p) == pred_n(p, 1)

\* the derived Ord of a period compares the index
Le(a, b) == a.idx <= b.idx

Lt(a, b) == a.idx < b.idx

MaxP(a, b) == IF Le(a, b) THEN b ELSE a

MinP(a, b) == IF Le(a, b) THEN a ELSE b

\* DateResolution::start
start(p) ==
    CASE p.kind.name = "Day" -> Day_start(p.idx)
      [] p.kind.name = "Week" -> Week_start(p.kind.par, p.idx)
      [] p.kind.name = "Month" -> Month_start(p.idx)
      [] p.kind.name = "Quarter" -> Quarter_start(p.idx)
      [] p.kind.name = "Year" -> Year_start(p.idx)

\* DateResolution::from_date
from_date(kind, date) ==
    CASE kind.name = "Day" -> P(kind, Day_from_date(date))
      [] kind.name = "Week" -> P(kind, Week_from_date(kind.par, date))
      [] kind.name = "Month" -> P(kind, Month_from_date(date))
      [] kind.name = "Quarter" -> P(kind, Quarter_from(date))
      [] kind.name = "Year" -> P(kind, Year_from_date(date))

\* TimeResolution::start_datetime
start_datetime(p) ==
    IF p.kind.name = "Minutes"
    THEN Minutes_start_datetime(p.kind.par, p.idx)
    ELSE timestamp(start(p))

\* Out::from(DateTime<Utc>)
from_datetime(kind, ts) ==
    CASE kind.name = "Minutes" -> P(kind, Minutes_from(kind.par, ts))
      [] kind.name = "Day" -> P(kind, Day_from(date_naive(ts)))
      [] kind.name \in {"Week", "Month", "Quarter", "Year"} ->
            from_date(kind, date_naive(ts))

\* SubDateResolution::first_on_day
first_on_day(kind, day) == from_monotonic(kind, Minutes_first_on_day(kind.par, day))

\* SubDateResolution::last_on_day
last_on_day(kind, day) == pred(first_on_day(kind, day + 1))

\* DateResolutionExt::end, the last calendar date of a date-level period
DateResolutionExt_end(p) == start(succ(p)) - 1

(***************************************************************************)
(* Zoned<R, Z> over a fixed-offset zone; a zone is its offset from UTC in   *)
(* seconds.                                                                *)
(***************************************************************************)
\* a time zone with one transition: its offset from UTC, in seconds, is
\* `before` until the UTC instant `at` and `after` from then on
Zone(before, after, at) == [before |-> before, after |-> after, at |-> at]

\* chrono::FixedOffset, and Utc as FixedOffset(0)
FixedOffset(o) == Zone(o, o, 0)

\* TimeZone::offset_from_utc_datetime
offset_from_utc(zone, utc) == IF utc < zone.at THEN zone.before ELSE zone.after

\* NaiveDateTime::and_local_timezone: the offsets at which the wall-clock time
\* `local` occurs in the zone, the earlier instant first. None in a
\* spring-forward gap (LocalResult::None), one normally (Single), two in a
\* repeated stretch (Ambiguous)
and_local_timezone(local, zone) ==
    LET valid == {o \in {zone.before, zone.after} : offset_from_utc(zone, local - o) = o}
    IN  IF valid = {} THEN <<>>
        ELSE IF zone.before \in valid /\ zone.after \in valid /\ zone.before # zone.after
        THEN <<Max(zone.before, zone.after), Min(zone.before, zone.after)>>
        ELSE <<CHOOSE o \in valid : TRUE>>

\* LocalResult::single
single(result) == IF Len(result) = 1 THEN Some(result[1]) ELSE None

\* the last candidate minute of local_offset_at_start_of_date
ScanMinutes == 240

\* local_offset_at_start_of_date before its unwrap: the candidate minutes
\* 0 ..= ScanMinutes after local midnight are tried in order, those that do
\* not resolve to a single instant are dropped, and the offset of the first
\* one left is returned
local_offset_at_start_of_date(date, zone) ==
    LET with_tz == [m \in 0 .. ScanMinutes |->
                        single(and_local_timezone(timestamp(date) + m * 60, zone))]
        found == {m \in 0 .. ScanMinutes : with_tz[m].some}
    IN  IF found = {}
        THEN None
        ELSE with_tz[CHOOSE m \in found : \A k \in found : m <= k]

\* a panic of the program
Panic == [panic |-> TRUE]

Zoned(local, offset, zone) ==
    [local_resolution |-> local, current_offset |-> offset, zone |-> zone]

\* a succ_n that forgets the stored offset
Zoned_succ_n_DropsOffset(z, n) ==
    [z EXCEPT !.local_resolution = succ_n(@, n), !.current_offset = 0]

\* impl TimeResolution for Zoned: only local_resolution moves
Zoned_succ_n(z, n) == [z EXCEPT !.local_resolution = succ_n(@, n)]

Zoned_pred_n(z, n) == [z EXCEPT !.local_resolution = pred_n(@, n)]

\* impl Monotonic for Zoned
Zoned_to_monotonic(z) == to_monotonic(z.local_resolution)

\* Zoned::local_start_datetime, as the instant it denotes: the start of the
\* local resolution read as a wall-clock time at current_offset
Zoned_local_start_datetime(z) == start_datetime(z.local_resolution) - z.current_offset

\* impl PartialEq for Zoned
Zoned_eq(a, b) == Zoned_local_start_datetime(a) = Zoned_local_start_datetime(b)

\* impl Ord for Zoned
Zoned_lt(a, b) == Zoned_local_start_datetime(a) < Zoned_local_start_datetime(b)

\* the period of the instant itself, not of its wall-clock time
Zoned_from_Utc(kind, t, zone) ==
    Zoned(from_datetime(kind, t), offset_from_utc(zone, t), zone)

\* impl From<DateTime<Z>> for Zoned; t is the instant of the DateTime<Z>
Zoned_from(kind, t, zone) ==
    LET offset == offset_from_utc(zone, t)
    IN  Zoned(from_datetime(kind, t + offset), offset, zone)

\* Zoned::from_local: the wall-clock start of value, placed in a fixed zone
Zoned_from_local(value, zone) ==
    LET local == start_datetime(value)
        offset == single(and_local_timezone(local, zone))
    IN  IF offset.some THEN Zoned_from(value.kind, local - offset.val, zone) ELSE Panic

\* Zoned::from_date
Zoned_from_date(kind, date, zone) ==
    LET offset == local_offset_at_start_of_date(date, zone)
    IN  IF offset.some THEN Zoned(from_date(kind, date), offset.val, zone) ELSE Panic

(***************************************************************************)
(* TimeRange                                                               *)
(***************************************************************************)
TimeRange(s, n) == [start |-> s, len |-> n]

\* TimeRange::end
end(r) == succ_n(r.start, r.len - 1)

\* the index set of a range (TimeRange::to_indexes)
to_indexes(r) == {to_monotonic(r.start) + k : k \in 0 .. (r.len - 1)}

\* TimeRange::from_bounds: both branches start the range at `a`
from_bounds(a, b) ==
    IF Le(a, b)
    THEN TimeRange(a, 1 + between(a, b))
    ELSE TimeRange(a, 1 + between(b, a))

intersection_Strict(x, y) ==
    LET max_start == MaxP(x.start, y.start)
        min_end   == MinP(end(x), end(y))
    IN  IF Lt(max_start, min_end)
        THEN Some(from_bounds(max_start, min_end))
        ELSE None

\* TimeRange::intersection
intersection(x, y) ==
    LET max_start == MaxP(x.start, y.start)
        min_end   == MinP(end(x), end(y))
    IN  IF Le(max_start, min_end)
        THEN Some(from_bounds(max_start, min_end))
        ELSE None

union_MergesAdjacent(x, y) ==
    IF Le(MaxP(x.start, y.start), succ(MinP(end(x), end(y))))
    THEN Some(from_bounds(MinP(x.start, y.start), MaxP(end(x), end(y))))
    ELSE None

\* TimeRange::union
union(x, y) ==
    IF intersection(x, y).some
    THEN LET min_start == MinP(x.start, y.start)
             max_end   == MaxP(end(x), end(y))
         IN  Some(from_bounds(min_start, max_end))
    ELSE None

\* (range_start..range_end).contains(&t), a half-open interval of instants
HalfOpenContains(lo, hi, t) == lo <= t /\ t < hi

\* TimeRange::contains
contains(r, rhs) ==
    LET range_start      == start_datetime(r.start)
        range_end        == start_datetime(succ(end(r)))
        comparison_start == start_datetime(rhs)
        comparison_end   == start_datetime(succ(rhs))
    IN  /\ HalfOpenContains(range_start, range_end, comparison_start)
        /\ HalfOpenContains(range_start, range_end, comparison_end)

rescale_NoPred(r, out) ==
    LET s == from_datetime(out, start_datetime(r.start))
        e == from_datetime(out, start_datetime(succ(end(r))))
    IN  from_bounds(s, e)

\* TimeRange::rescale, the generic rescale through instants
rescale(r, out) ==
    LET s == from_datetime(out, start_datetime(r.start))
        e == pred(from_datetime(out, start_datetime(succ(end(r)))))
    IN  from_bounds(s, e)

to_sub_date_resolution_EndStart(r, sub) ==
    LET first_start == first_on_day(sub, start(r.start))
        last_end    == last_on_day(sub, start(end(r)))
    IN  from_bounds(first_start, last_end)

\* TimeRange::to_sub_date_resolution
to_sub_date_resolution(r, sub) ==
    LET first_start == first_on_day(sub, start(r.start))
        last_end    == last_on_day(sub, DateResolutionExt_end(end(r)))
    IN  from_bounds(first_start, last_end)

\* DateResolutionExt::to_sub_date_resolution, of one period
DateResolutionExt_to_sub_date_resolution(p, sub) ==
    from_bounds(first_on_day(sub, start(p)), last_on_day(sub, DateResolutionExt_end(p)))

DateResolutionExt_rescale_EndStart(p, out) ==
    from_bounds(from_date(out, start(p)), from_date(out, start(p)))

\* DateResolutionExt::rescale, of one period to a shorter date-level kind
DateResolutionExt_rescale(p, out) ==
    from_bounds(from_date(out, start(p)), from_date(out, DateResolutionExt_end(p)))

\* the elements of a BTreeSet<i64> in iteration (ascending) order
RECURSIVE Ascending(_)
Ascending(S) ==
    IF S = {}
    THEN <<>>
    ELSE LET m == CHOOSE x \in S : \A y \in S : x <= y
         IN  <<m>> \o Ascending(S \ {m})

SeqContains(seq, x) == \E i \in 1 .. Len(seq) : seq[i] = x

\* the `for val in iter` loop of TimeRange::from_map
RECURSIVE from_map_loop(_, _, _, _, _, _)
from_map_loop(kind, vals, i, prev, current_range, ranges) ==
    IF i > Len(vals)
    THEN ranges
    ELSE LET val == vals[i]
         IN  IF val = prev + 1
             THEN from_map_loop(kind, vals, i + 1, val,
                                TimeRange(current_range.start, current_range.len + 1),
                                ranges)
             ELSE LET old_range == current_range
                  IN  from_map_loop(kind, vals, i + 1, val,
                                    TimeRange(from_monotonic(kind, val), 1),
                                    IF SeqContains(ranges, old_range)
                                    THEN ranges
                                    ELSE Append(ranges, old_range))

\* TimeRange::from_map
from_map(kind, map) ==
    IF map = {}
    THEN <<>>
    ELSE LET vals == Ascending(map)
         IN  from_map_loop(kind, vals, 2, vals[1],
                           TimeRange(from_monotonic(kind, vals[1]), 1), <<>>)

(***************************************************************************)
(* Inputs.                                                                 *)
(***************************************************************************)
Years == FirstYear .. (FirstYear + YearSpan)

WeekKinds == {WeekK(wd) : wd \in StartDays}

MinuteKinds == {Minute, FiveMinute, HalfHour, Hour}

DateKinds == {DayK, MonthK, YearK} \cup WeekKinds

AllKinds == MinuteKinds \cup DateKinds

\* the period of a kind that holds midnight UTC of 1 January of the second year
\* (with FirstYear = 2019: 2020, before the epoch of Week<D>)
Anchor(kind) == from_datetime(kind, timestamp(from_ymd_opt(FirstYear + 1, 1, 1)))

\* the same in the last year but one (2024, after the epoch of Week<D>)
LateAnchor(kind) ==
    from_datetime(kind, timestamp(from_ymd_opt(FirstYear + YearSpan - 1, 1, 1)))

\* the ranges of one kind the range algebra is tried on
RangesOf(kind) ==
    {TimeRange(succ_n(Anchor(kind), s), n) : s \in 0 .. StartSpread, n \in 1 .. MaxLen}

PeriodsOf(kind) ==
    {succ_n(Anchor(kind), s) : s \in 0 .. (StartSpread + MaxLen)}

(***************************************************************************)
(* The calls: Init draws the arguments, the action applies the operation.  *)
(***************************************************************************)
\* an empty BTreeMap
EmptyMap == <<>>

\* no cache entries and no iterator: the calls on values alone leave them so
NoObjects == data = EmptyMap /\ requests = {} /\ iter = None

InitFromMap ==
    /\ pc = "call"
    /\ NoObjects
    /\ ret = None
    /\ \E kind \in {DayK, MonthK}, map \in SUBSET ((0 - MapBelow) .. MapAbove) :
           call = [op |-> "from_map", kind |-> kind, map |-> map]

FromMap ==
    /\ pc = "call"
    /\ call.op = "from_map"
    /\ ret' = from_map(call.kind, call.map)
    /\ pc' = "done"
    /\ UNCHANGED <<call, data, requests, iter>>

SpecFromMap == InitFromMap /\ [][FromMap]_vars

InitFromBounds ==
    /\ pc = "call"
    /\ NoObjects
    /\ ret = None
    /\ \E kind \in AllKinds :
           \E a \in PeriodsOf(kind), b \in PeriodsOf(kind) :
               call = [op |-> "from_bounds", a |-> a, b |-> b]

FromBounds ==
    /\ pc = "call"
    /\ call.op = "from_bounds"
    /\ ret' = from_bounds(call.a, call.b)
    /\ pc' = "done"
    /\ UNCHANGED <<call, data, requests, iter>>

SpecFromBounds == InitFromBounds /\ [][FromBounds]_vars

\* the periods of kind `o` within Slack periods of an instant
Near(o, ts) == {succ_n(pred_n(from_datetime(o, ts), Slack), d) : d \in 0 .. (2 * Slack)}

InitContains ==
    /\ pc = "call"
    /\ NoObjects
    /\ ret = None
    /\ \E p \in AllKinds, o \in AllKinds :
           /\ LongerThanOrEqual(p, o)
           /\ \E r \in RangesOf(p) :
                  \E rhs \in Near(o, start_datetime(r.start))
                             \cup Near(o, start_datetime(succ(end(r)))) :
                      call = [op |-> "contains", range |-> r, rhs |-> rhs]

Contains ==
    /\ pc = "call"
    /\ call.op = "contains"
    /\ ret' = contains(call.range, call.rhs)
    /\ pc' = "done"
    /\ UNCHANGED <<call, data, requests, iter>>

SpecContains == InitContains /\ [][Contains]_vars

InitSetOps ==
    /\ pc = "call"
    /\ NoObjects
    /\ ret = None
    /\ \E op \in {"intersection", "union"}, kind \in {Hour, DayK, WeekK(0), MonthK, YearK} :
           \E x \in RangesOf(kind), y \in RangesOf(kind) :
               call = [op |-> op, x |-> x, y |-> y]

Intersection ==
    /\ pc = "call"
    /\ call.op = "intersection"
    /\ ret' = intersection(call.x, call.y)
    /\ pc' = "done"
    /\ UNCHANGED <<call, data, requests, iter>>

Union ==
    /\ pc = "call"
    /\ call.op = "union"
    /\ ret' = union(call.x, call.y)
    /\ pc' = "done"
    /\ UNCHANGED <<call, data, requests, iter>>

SpecSetOps == InitSetOps /\ [][Intersection \/ Union]_vars

\* the kinds generic rescale is tried on: those with From<DateTime<Utc>>
RescaleKinds == {FiveMinute, Hour, DayK, WeekK(0), MonthK, YearK}

YearRanges == {TimeRange(P(YearK, y), n) : y \in Years, n \in 1 .. MaxYearLen}

\* ranges of days that start around 31 January of the last year but one and
\* reach at most early March
DayRanges ==
    {TimeRange(from_date(DayK, from_ymd_opt(FirstYear + YearSpan - 1, 1, 30) + s), n) :
         s \in 0 .. StartSpread, n \in 1 .. MaxDayLen}

\* the range the next rescale of the chain is applied to
Current == IF ret = <<>> THEN call.range ELSE ret[Len(ret)].range

InitRescale ==
    /\ pc = "call"
    /\ NoObjects
    /\ ret = <<>>
    /\ \E r \in YearRanges \cup DayRanges : call = [op |-> "rescale", range |-> r]

\* range.rescale::<Out>(), applied to the input and then to each result in turn
Rescale ==
    /\ call.op = "rescale"
    /\ Len(ret) < RescaleDepth
    /\ \E out \in RescaleKinds :
           ret' = Append(ret, [out |-> out, range |-> rescale(Current, out)])
    /\ pc' = "done"
    /\ UNCHANGED <<call, data, requests, iter>>

SpecRescale == InitRescale /\ [][Rescale]_vars

DateRanges ==
    UNION {RangesOf(kind) \cup {TimeRange(succ_n(LateAnchor(kind), s), n) :
                                    s \in 0 .. StartSpread, n \in 1 .. MaxLen} :
           kind \in DateKinds}

DatePeriods ==
    UNION {PeriodsOf(kind) \cup {succ_n(LateAnchor(kind), s) : s \in 0 .. StartSpread} :
           kind \in DateKinds}

InitDateLevel ==
    /\ pc = "call"
    /\ NoObjects
    /\ ret = None
    /\ \/ \E r \in DateRanges, sub \in MinuteKinds :
              call = [op |-> "to_sub_date_resolution", range |-> r, sub |-> sub]
       \/ \E p \in DatePeriods, sub \in MinuteKinds :
              call = [op |-> "DateResolutionExt::to_sub_date_resolution",
                      period |-> p, sub |-> sub]
       \/ \E p \in DatePeriods, out \in DateKinds :
              /\ LongerThan(p.kind, out)
              /\ call = [op |-> "DateResolutionExt::rescale", period |-> p, out |-> out]

ToSubDateResolution ==
    /\ pc = "call"
    /\ call.op = "to_sub_date_resolution"
    /\ ret' = to_sub_date_resolution(call.range, call.sub)
    /\ pc' = "done"
    /\ UNCHANGED <<call, data, requests, iter>>

PeriodToSubDateResolution ==
    /\ pc = "call"
    /\ call.op = "DateResolutionExt::to_sub_date_resolution"
    /\ ret' = DateResolutionExt_to_sub_date_resolution(call.period, call.sub)
    /\ pc' = "done"
    /\ UNCHANGED <<call, data, requests, iter>>

DateRescale ==
    /\ pc = "call"
    /\ call.op = "DateResolutionExt::rescale"
    /\ ret' = DateResolutionExt_rescale(call.period, call.out)
    /\ pc' = "done"
    /\ UNCHANGED <<call, data, requests, iter>>

SpecDateLevel ==
    InitDateLevel /\ [][ToSubDateResolution \/ PeriodToSubDateResolution \/ DateRescale]_vars

\* every call of the model
(***************************************************************************)
(* TimeRangeIter: the walk over a range.                                   *)
(***************************************************************************)
\* the number of times iter() is called on the same range
MaxPasses == 2

\* TimeRange::iter
TimeRange_iter(r) == [current |-> r.start, end |-> end(r)]

\* next() with a strict comparison, which stops one period early
TimeRangeIter_next_Exclusive(it) ==
    IF Lt(it.current, it.end)
    THEN [iter |-> [it EXCEPT !.current = succ(it.current)], item |-> Some(it.current)]
    ELSE [iter |-> it, item |-> None]

\* TimeRangeIter::next: the iterator after the call and the item returned
TimeRangeIter_next(it) ==
    IF Le(it.current, it.end)
    THEN [iter |-> [it EXCEPT !.current = succ(it.current)], item |-> Some(it.current)]
    ELSE [iter |-> it, item |-> None]

\* ret is the list of passes, each the list of the periods yielded so far
InitIter ==
    /\ pc = "call"
    /\ NoObjects
    /\ call \in {[op |-> "iter", range |-> r] : r \in UNION {RangesOf(k) : k \in AllKinds}}
    /\ ret = <<>>

\* range.iter(), on a fresh range or after the previous iterator is exhausted
Iter ==
    /\ call.op = "iter"
    /\ pc = "call" \/ (pc = "done" /\ Len(ret) < MaxPasses)
    /\ iter' = TimeRange_iter(call.range)
    /\ ret' = Append(ret, <<>>)
    /\ pc' = "iterating"
    /\ UNCHANGED <<call, data, requests>>

\* iterator.next(): Some(period) is collected, None ends the pass
IterNext ==
    /\ pc = "iterating"
    /\ LET n == TimeRangeIter_next(iter) IN
        /\ iter' = n.iter
        /\ IF n.item.some
           THEN /\ ret' = [ret EXCEPT ![Len(ret)] = Append(@, n.item.val)]
                /\ pc' = pc
           ELSE /\ ret' = ret
                /\ pc' = "done"
    /\ UNCHANGED <<call, data, requests>>

SpecIter == InitIter /\ [][Iter \/ IterNext]_vars

(***************************************************************************)
(* Cache: the data received and the keys that were asked for.              *)
(***************************************************************************)
\* the most entries the data of one add call holds
MaxAddData == 2

\* missing_pieces is tried on keys 1 .. MaxPiece
MaxPiece == 10

\* the keys (K) and the values (T) the cache is tried on
Keys == {1, 2, 3}

Values == {"a", "b"}

SetMin(s) == CHOOSE x \in s : \A y \in s : x <= y

SetMax(s) == CHOOSE x \in s : \A y \in s : x >= y

\* BTreeMap::insert
insert(map, k, v) == [x \in DOMAIN map \cup {k} |-> IF x = k THEN v ELSE map[x]]

\* the entries of a map whose keys are in s
Restrict(map, s) == [x \in DOMAIN map \cap s |-> map[x]]

Hit(map) == [tag |-> "Hit", map |-> map]

Miss(pieces) == [tag |-> "Miss", pieces |-> pieces]

RECURSIVE missing_pieces_loop(_, _, _, _)
\* the for loop of missing_pieces over the keys of request not yet visited,
\* in ascending order, and the push after it
missing_pieces_loop(rest, known, to_request, current_request) ==
    IF rest = {}
    THEN IF current_request # {} THEN Append(to_request, current_request) ELSE to_request
    ELSE LET requested == SetMin(rest)
             later == rest \ {requested}
         IN  IF requested \notin known
             THEN missing_pieces_loop(later, known, to_request,
                                      current_request \cup {requested})
             ELSE IF current_request # {}
             THEN missing_pieces_loop(later, known, Append(to_request, current_request), {})
             ELSE missing_pieces_loop(later, known, to_request, current_request)

\* everything missing as one group, however many gaps it has
missing_pieces_OneGroup(request, known) ==
    IF request \ known = {} THEN <<>> ELSE <<request \ known>>

missing_pieces(request, known) == missing_pieces_loop(request, known, <<>>, {})

\* a hit that returns the requested keys only
Cache_get_OnlyRequested(self, request) ==
    IF request = {}
    THEN Hit(EmptyMap)
    ELSE IF request \subseteq self.requests
    THEN Hit(Restrict(self.data, request))
    ELSE Miss(missing_pieces(request, self.requests))

\* Cache::get; self is the cache, [data, requests]
Cache_get(self, request) ==
    IF request = {}
    THEN Hit(EmptyMap)
    ELSE IF request \subseteq self.requests
    THEN Hit(Restrict(self.data, {k \in DOMAIN self.data :
                                     SetMin(request) <= k /\ SetMax(request) >= k}))
    ELSE Miss(missing_pieces(request, self.requests))

\* Cache::empty
Cache_empty == [data |-> EmptyMap, requests |-> {}]

RECURSIVE Cache_add_loop(_, _)
\* the for loop of add over the entries of new_data, in ascending key order
Cache_add_loop(map, new_data) ==
    IF DOMAIN new_data = {}
    THEN map
    ELSE LET point == SetMin(DOMAIN new_data) IN
         Cache_add_loop(insert(map, point, new_data[point]),
                        Restrict(new_data, DOMAIN new_data \ {point}))

\* an add that keeps the value a key already has
Cache_add_KeepsExisting(self, request_range, new_data) ==
    [data |-> Cache_add_loop(new_data, self.data),
     requests |-> self.requests \cup request_range]

\* an add that forgets the earlier requests
Cache_add_ReplacesRequests(self, request_range, new_data) ==
    [data |-> Cache_add_loop(self.data, new_data),
     requests |-> request_range]

\* an add that takes the keys of the data for the keys requested
Cache_add_RequestsFromData(self, request_range, new_data) ==
    [data |-> Cache_add_loop(self.data, new_data),
     requests |-> self.requests \cup DOMAIN new_data]

\* Cache::add
Cache_add(self, request_range, new_data) ==
    [data |-> Cache_add_loop(self.data, new_data),
     requests |-> self.requests \cup request_range]

\* the maps one add call may bring
AddData ==
    {m \in UNION {[s -> Values] : s \in SUBSET Keys} : Cardinality(DOMAIN m) <= MaxAddData}

\* Cache::empty()
InitCache ==
    /\ pc = "call"
    /\ call = [op |-> "empty"]
    /\ ret = None
    /\ data = Cache_empty.data
    /\ requests = Cache_empty.requests
    /\ iter = None

IsCache == call.op \in {"empty", "add", "get"}

\* cache.add(request_range, new_data); add returns nothing, ret notes the keys
\* whose cached value the call replaced by a different one
Add ==
    /\ IsCache
    /\ \E request_range \in SUBSET Keys, new_data \in AddData :
        LET after == Cache_add([data |-> data, requests |-> requests],
                               request_range, new_data)
        IN  /\ call' = [op |-> "add", request_range |-> request_range, data |-> new_data]
            /\ data' = after.data
            /\ requests' = after.requests
            /\ ret' = [replaced |-> {k \in DOMAIN new_data \cap DOMAIN data :
                                        data[k] # new_data[k]}]
    /\ pc' = "done"
    /\ UNCHANGED iter

\* cache.get(request)
Get ==
    /\ IsCache
    /\ \E request \in SUBSET Keys :
        /\ call' = [op |-> "get", request |-> request]
        /\ ret' = Cache_get([data |-> data, requests |-> requests], request)
    /\ pc' = "done"
    /\ UNCHANGED <<data, requests, iter>>

SpecCache == InitCache /\ [][Add \/ Get]_vars

\* after a Miss the caller requests the missing data and adds it piece by
\* piece, whatever data came back for the piece; call keeps the pieces left
AddPiece ==
    /\ \/ call.op = "get" /\ ret.tag = "Miss"
       \/ call.op = "add_piece" /\ call.rest # <<>>
    /\ \E new_data \in AddData :
        LET pieces == IF call.op = "get" THEN ret.pieces ELSE call.pieces
            rest == IF call.op = "get" THEN ret.pieces ELSE call.rest
            after == Cache_add([data |-> data, requests |-> requests],
                               Head(rest), new_data)
        IN  /\ call' = [op |-> "add_piece", request |-> call.request,
                        pieces |-> pieces, rest |-> Tail(rest), data |-> new_data]
            /\ data' = after.data
            /\ requests' = after.requests
            /\ ret' = [replaced |-> {k \in DOMAIN new_data \cap DOMAIN data :
                                        data[k] # new_data[k]}]
    /\ pc' = "done"
    /\ UNCHANGED iter

\* ... then asks the cache again
GetAgain ==
    /\ call.op = "add_piece"
    /\ call.rest = <<>>
    /\ call' = [op |-> "get_again", request |-> call.request, pieces |-> call.pieces]
    /\ ret' = Cache_get([data |-> data, requests |-> requests], call.request)
    /\ pc' = "done"
    /\ UNCHANGED <<data, requests, iter>>

SpecFill == InitCache /\ [][Add \/ Get \/ AddPiece \/ GetAgain]_vars

\* missing_pieces on a contiguous request and any set of known keys
InitMissingPieces ==
    /\ pc = "call"
    /\ NoObjects
    /\ call \in {[op |-> "missing_pieces", request |-> lo .. hi, known |-> known] :
                    lo \in 1 .. MaxPiece, hi \in 1 .. MaxPiece,
                    known \in SUBSET (1 .. MaxPiece)}
    /\ ret = None

MissingPieces ==
    /\ pc = "call"
    /\ call.op = "missing_pieces"
    /\ ret' = missing_pieces(call.request, call.known)
    /\ pc' = "done"
    /\ UNCHANGED <<call, data, requests, iter>>

SpecMissingPieces == InitMissingPieces /\ [][MissingPieces]_vars

(***************************************************************************)
(* Stepping, the index, and the calendar.                                  *)
(***************************************************************************)
\* succ_n and pred_n are tried with n in 0 .. MaxN
MaxN == 2

\* the number of successive steps taken from one period
StepDepth == 2

\* indexes are tried this far either side of index 0 and of the anchor
IndexSpread == 3

\* dates are tried this many days either side of each reference date
DateSpread == 10

\* every non-zoned kind
PlainKinds == AllKinds \cup {QuarterK}

\* the date-level kinds
CalendarKinds == DateKinds \cup {QuarterK}

\* Utc, +10:00 and -05:00
FixedZones == {FixedOffset(0), FixedOffset(36000), FixedOffset(-18000)}

\* the indexes of one kind around 0 (negative ones included) and around the
\* anchor
IndexesOf(kind) ==
    {d - IndexSpread : d \in 0 .. (2 * IndexSpread)}
        \cup {to_monotonic(Anchor(kind)) + d - IndexSpread : d \in 0 .. (2 * IndexSpread)}

\* zoned periods, built by from_local or from_date in a fixed zone
ZonedPeriods ==
    {Zoned_from_local(Anchor(k), z) : k \in MinuteKinds, z \in FixedZones}
        \cup {Zoned_from_date(k, start(Anchor(k)), z) : k \in CalendarKinds, z \in FixedZones}

IsZoned(v) == "zone" \in DOMAIN v

\* the trait methods, on a plain or a zoned period
TimeResolution_succ_n(v, n) == IF IsZoned(v) THEN Zoned_succ_n(v, n) ELSE succ_n(v, n)

TimeResolution_pred_n(v, n) == IF IsZoned(v) THEN Zoned_pred_n(v, n) ELSE pred_n(v, n)

Monotonic_to_monotonic(v) == IF IsZoned(v) THEN Zoned_to_monotonic(v) ELSE to_monotonic(v)

\* ==, derived for the plain kinds and by start instant for Zoned
Eq(a, b) == IF IsZoned(a) THEN Zoned_eq(a, b) ELSE a = b

\* ret is the list of the steps taken from call.p, each [fn, n, val]
InitStep ==
    /\ pc = "call"
    /\ NoObjects
    /\ call \in {[op |-> "step", p |-> p] :
                    p \in ZonedPeriods
                        \cup {from_monotonic(k, i) : k \in PlainKinds, i \in {-1, 0, 1}}
                        \cup {Anchor(k) : k \in PlainKinds}}
    /\ ret = <<>>

\* the period the next step starts from
StepFrom == IF ret = <<>> THEN call.p ELSE ret[Len(ret)].val

CanStep == call.op = "step" /\ Len(ret) < StepDepth

SuccN ==
    /\ CanStep
    /\ \E n \in 0 .. MaxN :
        ret' = Append(ret, [fn |-> "succ_n", n |-> n, val |-> TimeResolution_succ_n(StepFrom, n)])
    /\ pc' = "done"
    /\ UNCHANGED <<call, data, requests, iter>>

PredN ==
    /\ CanStep
    /\ \E n \in 0 .. MaxN :
        ret' = Append(ret, [fn |-> "pred_n", n |-> n, val |-> TimeResolution_pred_n(StepFrom, n)])
    /\ pc' = "done"
    /\ UNCHANGED <<call, data, requests, iter>>

\* succ() is succ_n(1)
Succ ==
    /\ CanStep
    /\ ret' = Append(ret, [fn |-> "succ", n |-> 1, val |-> TimeResolution_succ_n(StepFrom, 1)])
    /\ pc' = "done"
    /\ UNCHANGED <<call, data, requests, iter>>

\* pred() is pred_n(1)
Pred ==
    /\ CanStep
    /\ ret' = Append(ret, [fn |-> "pred", n |-> 1, val |-> TimeResolution_pred_n(StepFrom, 1)])
    /\ pc' = "done"
    /\ UNCHANGED <<call, data, requests, iter>>

SpecStep == InitStep /\ [][SuccN \/ PredN \/ Succ \/ Pred]_vars

\* two indexes of one plain kind
InitMonotonic ==
    /\ pc = "call"
    /\ NoObjects
    /\ call \in UNION {{[op |-> "monotonic", kind |-> k, i |-> i, j |-> j] :
                            i \in IndexesOf(k), j \in IndexesOf(k)} : k \in PlainKinds}
    /\ ret = None

\* where a period starts: an instant for the sub-date kinds; for the
\* date-level kinds the start date, whose midnight UTC is the start instant
StartOf(p) == IF p.kind.name = "Minutes" THEN start_datetime(p) ELSE start(p)

\* from_monotonic of both indexes, then what can be observed of the periods
FromToMonotonic ==
    /\ pc = "call"
    /\ call.op = "monotonic"
    /\ LET p == from_monotonic(call.kind, call.i)
           q == from_monotonic(call.kind, call.j)
       IN  ret' = [p |-> p,
                   index |-> to_monotonic(p),
                   back |-> from_monotonic(call.kind, to_monotonic(p)),
                   lt |-> Lt(p, q),
                   starts |-> <<StartOf(p), StartOf(q)>>]
    /\ pc' = "done"
    /\ UNCHANGED <<call, data, requests, iter>>

SpecMonotonic == InitMonotonic /\ [][FromToMonotonic]_vars

\* the dates tried: around the epoch of Week (2021-01-04), around the start
\* of year 0, around 1970-01-01 and around the anchor year's start
DatesTried ==
    {ref + d - DateSpread :
        ref \in {from_ymd_opt(2021, 1, 4), from_ymd_opt(0, 1, 1),
                 from_ymd_opt(1970, 1, 1), from_ymd_opt(FirstYear + 1, 1, 1)},
        d \in 0 .. (2 * DateSpread)}

InitFromDate ==
    /\ pc = "call"
    /\ NoObjects
    /\ call \in {[op |-> "from_date", kind |-> k, date |-> d] :
                    k \in CalendarKinds, d \in DatesTried}
    /\ ret = None

\* R::from_date(d), then start() and end() of the period
FromDate ==
    /\ pc = "call"
    /\ call.op = "from_date"
    /\ LET p == from_date(call.kind, call.date) IN
        ret' = [p |-> p, start |-> start(p), end |-> DateResolutionExt_end(p)]
    /\ pc' = "done"
    /\ UNCHANGED <<call, data, requests, iter>>

SpecFromDate == InitFromDate /\ [][FromDate]_vars

\* Month 24240 is January 2020; Day 737424 and Quarter 8080 start the same day
EpochIndexes ==
    {d - IndexSpread : d \in 0 .. (2 * IndexSpread)}
        \cup {24240 + d - IndexSpread : d \in 0 .. (2 * IndexSpread)}
        \cup {8080 + d - IndexSpread : d \in 0 .. (2 * IndexSpread)}
        \cup {737424 + d - IndexSpread : d \in 0 .. (2 * IndexSpread)}

InitStart ==
    /\ pc = "call"
    /\ NoObjects
    /\ call \in {[op |-> "start", kind |-> k, i |-> i] :
                    k \in {DayK, MonthK, QuarterK}, i \in EpochIndexes}
    /\ ret = None

\* R::from_monotonic(i).start(), and from_date of that date
Start ==
    /\ pc = "call"
    /\ call.op = "start"
    /\ LET d == start(from_monotonic(call.kind, call.i)) IN
        ret' = [start |-> d, back |-> from_date(call.kind, d)]
    /\ pc' = "done"
    /\ UNCHANGED <<call, data, requests, iter>>

SpecStart == InitStart /\ [][Start]_vars

(***************************************************************************)
(* Week<D>: start days and parsing.                                        *)
(***************************************************************************)
\* Datelike::weekday as num_days_from_monday; 1970-01-01 was a Thursday
weekday(date) == (date + 3) % 7

Ok(v) == [ok |-> TRUE, val |-> v]

Err(e) == [ok |-> FALSE, err |-> e]

\* impl FromStr for Week<D>, on the date the text "Week starting %Y-%m-%d"
\* holds
Week_from_str(wd, date) ==
    IF weekday(date) # wd
    THEN Err("UnexpectedStartDate")
    ELSE Ok(from_monotonic(WeekK(wd), TruncDiv(date - Week_base(wd), 7)))

\* the week indexes tried: around 0, below it too, and around the end of 2021
WeekIndexes ==
    {d - IndexSpread : d \in 0 .. (2 * IndexSpread)}
        \cup {48 + d - IndexSpread : d \in 0 .. (2 * IndexSpread)}

InitWeek ==
    /\ pc = "call"
    /\ NoObjects
    /\ call \in {[op |-> "week", wd |-> wd, n |-> n] : wd \in StartDays, n \in WeekIndexes}
            \cup {[op |-> "week_from_str", wd |-> wd,
                   date |-> from_ymd_opt(2021, 12, 6) + d - IndexSpread] :
                        wd \in StartDays, d \in 0 .. (2 * IndexSpread)}
    /\ ret = None

\* what the tests observe of a week: its start, its successor's start, and
\* the start of the predecessor of the successor
WeekStarts(w) ==
    [start |-> start(w), next |-> start(succ(w)), back |-> start(pred(succ(w)))]

WeekStart ==
    /\ pc = "call"
    /\ call.op = "week"
    /\ ret' = WeekStarts(from_monotonic(WeekK(call.wd), call.n))
    /\ pc' = "done"
    /\ UNCHANGED <<call, data, requests, iter>>

WeekFromStr ==
    /\ pc = "call"
    /\ call.op = "week_from_str"
    /\ LET parsed == Week_from_str(call.wd, call.date) IN
        ret' = IF parsed.ok THEN Ok(WeekStarts(parsed.val)) ELSE parsed
    /\ pc' = "done"
    /\ UNCHANGED <<call, data, requests, iter>>

SpecWeek == InitWeek /\ [][WeekStart \/ WeekFromStr]_vars

(***************************************************************************)
(* Zoned values in zones with a daylight-saving transition.                *)
(***************************************************************************)
\* the date around whose local midnight the zones change their clocks
TransitionDate == from_ymd_opt(2021, 11, 7)

\* zones at -04:00 or +09:30 whose clocks, when the wall clock reads k minutes
\* past the midnight of TransitionDate, go back 60 or 30 minutes or forward
\* 30 minutes, 60 minutes or 5 hours
DstZones ==
    {Zone(b, b + shift, timestamp(TransitionDate) + k * 60 - b) :
        b \in {-14400, 34200},
        shift \in {-3600, -1800, 1800, 3600, 18000},
        k \in {-60, 0, 30, 60}}

InitZonedFromDate ==
    /\ pc = "call"
    /\ NoObjects
    /\ call \in {[op |-> "zoned_from_date", date |-> TransitionDate + d, zone |-> z] :
                    d \in {-1, 0, 1}, z \in DstZones}
    /\ ret = None

\* Zoned::<Day, Z>::from_date(date, zone)
ZonedFromDate ==
    /\ pc = "call"
    /\ call.op = "zoned_from_date"
    /\ ret' = Zoned_from_date(DayK, call.date, call.zone)
    /\ pc' = "done"
    /\ UNCHANGED <<call, data, requests, iter>>

SpecZonedFromDate == InitZonedFromDate /\ [][ZonedFromDate]_vars

\* local instants are tried this many minutes either side of the transition
FromSpread == 120

\* pairs of instants are tried this many half hours either side of it
PairSpread == 4

IsFixed(zone) == zone.before = zone.after

\* the instants around the transition of the zone whose wall-clock time is
\* on the grid of the kind
GridInstants(kind, zone) ==
    {t \in {zone.at + 60 * (m - FromSpread) : m \in 0 .. (2 * FromSpread)} :
        (t + offset_from_utc(zone, t)) % (NUM_SECS * kind.par) = 0}

InitZonedFrom ==
    /\ pc = "call"
    /\ NoObjects
    /\ call \in UNION {{[op |-> "zoned_from", kind |-> k, zone |-> z, t |-> t] :
                            t \in GridInstants(k, z)} :
                        k \in MinuteKinds, z \in DstZones \cup FixedZones}
    /\ ret = None

\* Zoned::<Minutes<N>, Z>::from(t).local_start_datetime()
ZonedFrom ==
    /\ pc = "call"
    /\ call.op = "zoned_from"
    /\ LET z == Zoned_from(call.kind, call.t, call.zone) IN
        ret' = [zoned |-> z, local_start_datetime |-> Zoned_local_start_datetime(z)]
    /\ pc' = "done"
    /\ UNCHANGED <<call, data, requests, iter>>

SpecZonedFrom == InitZonedFrom /\ [][ZonedFrom]_vars

\* two instants of one zone, half hours apart
InitZonedPair ==
    /\ pc = "call"
    /\ NoObjects
    /\ call \in {[op |-> "zoned_pair", kind |-> k, zone |-> z,
                  t |-> z.at + 1800 * (i - PairSpread),
                  u |-> z.at + 1800 * (j - PairSpread)] :
                    k \in {HalfHour, Hour}, z \in DstZones \cup FixedZones,
                    i \in 0 .. (2 * PairSpread), j \in 0 .. (2 * PairSpread)}
    /\ ret = None

\* a and b built from the two instants, compared with == and <; in a fixed
\* zone also the value reached from a by stepping to the index of b
ZonedCompare ==
    /\ pc = "call"
    /\ call.op = "zoned_pair"
    /\ LET a == Zoned_from(call.kind, call.t, call.zone)
           b == Zoned_from(call.kind, call.u, call.zone)
           n == Zoned_to_monotonic(b) - Zoned_to_monotonic(a)
           stepped == IF ~IsFixed(call.zone) THEN b
                      ELSE IF n >= 0 THEN Zoned_succ_n(a, n) ELSE Zoned_pred_n(a, -n)
       IN  ret' = [a |-> a, b |-> b, eq |-> Zoned_eq(a, b), lt |-> Zoned_lt(a, b),
                   stepped |-> stepped]
    /\ pc' = "done"
    /\ UNCHANGED <<call, data, requests, iter>>

SpecZonedPair == InitZonedPair /\ [][ZonedCompare]_vars

(***************************************************************************)
(* The constructors of TimeRange.                                          *)
(***************************************************************************)
\* NonZeroU64::new
NonZeroU64_new(n) == IF n = 0 THEN None ELSE Some(n)

\* TimeRange::new; len is a NonZeroU64
TimeRange_new(s, len) == TimeRange(s, len)

\* a maybe_new that takes any length
maybe_new_Unchecked(s, len) == Some(TimeRange(s, len))

\* TimeRange::maybe_new
maybe_new(s, len) ==
    IF NonZeroU64_new(len).some THEN Some(TimeRange(s, NonZeroU64_new(len).val)) ELSE None

\* TimeRange::from_set: the least period and the number of periods
from_set(set) ==
    IF set = {}
    THEN None
    ELSE LET first == CHOOSE p \in set : \A q \in set : Le(p, q)
             len == NonZeroU64_new(Cardinality(set))
         IN  IF len.some THEN Some(TimeRange(first, len.val)) ELSE None

InitConstruct ==
    /\ pc = "call"
    /\ NoObjects
    /\ \/ call \in {[op |-> "new", start |-> Anchor(k), len |-> n] :
                        k \in AllKinds, n \in 1 .. MaxLen}
       \/ call \in {[op |-> "maybe_new", start |-> Anchor(k), len |-> n] :
                        k \in AllKinds, n \in 0 .. MaxLen}
       \/ call \in {[op |-> "from_set", set |-> s] :
                        s \in UNION {SUBSET {succ_n(Anchor(k), d) : d \in 0 .. MaxLen} :
                                        k \in {Hour, DayK, MonthK}}}
    /\ ret = None

New ==
    /\ pc = "call"
    /\ call.op = "new"
    /\ ret' = TimeRange_new(call.start, call.len)
    /\ pc' = "done"
    /\ UNCHANGED <<call, data, requests, iter>>

MaybeNew ==
    /\ pc = "call"
    /\ call.op = "maybe_new"
    /\ ret' = maybe_new(call.start, call.len)
    /\ pc' = "done"
    /\ UNCHANGED <<call, data, requests, iter>>

FromSet ==
    /\ pc = "call"
    /\ call.op = "from_set"
    /\ ret' = from_set(call.set)
    /\ pc' = "done"
    /\ UNCHANGED <<call, data, requests, iter>>

\* every constructor and operation that produces a range
SpecRanges ==
    /\ \/ InitConstruct
       \/ InitFromBounds
       \/ InitFromMap
       \/ InitSetOps
       \/ InitRescale
       \/ InitDateLevel
    /\ [][\/ New
          \/ MaybeNew
          \/ FromSet
          \/ FromBounds
          \/ FromMap
          \/ Intersection
          \/ Union
          \/ Rescale
          \/ ToSubDateResolution
          \/ PeriodToSubDateResolution
          \/ DateRescale]_vars

(***************************************************************************)
(* DaySubdivison<N>: the place of a Minutes<N> period within its day.      *)
(***************************************************************************)
\* relative() is tried this many periods into a day, and at the day's end
RelativeSteps == 5

\* SubDateResolution::occurs_on_date for Minutes<N>
occurs_on_date(p) == date_naive(start_datetime(p))

\* DaySubdivison::PERIODS
PERIODS(n) == TruncDiv(1440, n)

\* Minutes::<N>::relative; a DaySubdivison is its 0-based index
relative(p) == between(first_on_day(p.kind, occurs_on_date(p)), p)

\* DaySubdivison::on_date
on_date(kind, index, date) ==
    from_monotonic(kind, index + to_monotonic(first_on_day(kind, date)))

\* DaySubdivison::new
DaySubdivison_new(kind, period_no) ==
    IF period_no > PERIODS(kind.par) THEN None ELSE Some(period_no - 1)

\* the stored index, which counts from 0
DaySubdivison_index_ZeroBased(index) == index

\* DaySubdivison::index
DaySubdivison_index(index) == index + 1

\* lengths that divide a day, an hour or less and more
RelativeKinds == {MinutesK(n) : n \in {1, 5, 30, 60, 120, 720}}

\* steps from the first period of a day: a few, and around one and two days
StepsTried(kind) ==
    (0 .. RelativeSteps)
        \cup {PERIODS(kind.par) * m + d : m \in {1, 2}, d \in {-1, 0, 1}}

InitRelative ==
    /\ pc = "call"
    /\ NoObjects
    /\ \/ call \in UNION {{[op |-> "relative", kind |-> k, day |-> day, i |-> i] :
                            i \in StepsTried(k),
                            day \in {from_ymd_opt(2021, 1, 1), from_ymd_opt(1970, 1, 1),
                                     from_ymd_opt(1969, 12, 30)}} :
                          k \in RelativeKinds}
       \/ call \in UNION {{[op |-> "DaySubdivison::new", kind |-> k, period_no |-> n] :
                            n \in (1 .. RelativeSteps)
                                    \cup {PERIODS(k.par) + d : d \in {0, 1, 2}}} :
                          k \in RelativeKinds}
    /\ ret = None

\* first_on_day(day).succ_n(i).relative(), its index(), and on_date of it
Relative ==
    /\ pc = "call"
    /\ call.op = "relative"
    /\ LET p == succ_n(first_on_day(call.kind, call.day), call.i)
           rel == relative(p)
       IN  ret' = [p |-> p,
                   relative |-> rel,
                   index |-> DaySubdivison_index(rel),
                   on_date |-> on_date(call.kind, rel, occurs_on_date(p))]
    /\ pc' = "done"
    /\ UNCHANGED <<call, data, requests, iter>>

DaySubdivisonNew ==
    /\ pc = "call"
    /\ call.op = "DaySubdivison::new"
    /\ LET made == DaySubdivison_new(call.kind, call.period_no) IN
        ret' = IF made.some
               THEN [some |-> TRUE, val |-> made.val, index |-> DaySubdivison_index(made.val)]
               ELSE None
    /\ pc' = "done"
    /\ UNCHANGED <<call, data, requests, iter>>

SpecRelative == InitRelative /\ [][Relative \/ DaySubdivisonNew]_vars

(***************************************************************************)
(* Month::from_parts                                                       *)
(***************************************************************************)
\* chrono::Month::number_from_month, January = 1; a chrono::Month is
\* modelled as its number
number_from_month(month) == month

\* Month::from_parts
Month_from_parts(year, month) ==
    from_monotonic(MonthK, year + (number_from_month(month) - 1))

\* the years tried: around year 0, the epoch, and the present
PartsYears == {-1, 0, 1, 1970, 2000} \cup (2020 .. 2024)

InitFromParts ==
    /\ pc = "call"
    /\ NoObjects
    /\ call \in {[op |-> "from_parts", year |-> y, month |-> m] :
                    y \in PartsYears, m \in 1 .. 12}
    /\ ret = None

\* Month::from_parts(year, month), and start() of the month it gives
FromParts ==
    /\ pc = "call"
    /\ call.op = "from_parts"
    /\ LET made == Month_from_parts(call.year, call.month) IN
        ret' = [month |-> made, start |-> start(made)]
    /\ pc' = "done"
    /\ UNCHANGED <<call, data, requests, iter>>

SpecFromParts == InitFromParts /\ [][FromParts]_vars

Init ==
    \/ InitFromMap
    \/ InitFromBounds
    \/ InitContains
    \/ InitSetOps
    \/ InitRescale
    \/ InitDateLevel
    \/ InitIter
    \/ InitCache
    \/ InitMissingPieces
    \/ InitStep
    \/ InitMonotonic
    \/ InitFromDate
    \/ InitStart
    \/ InitWeek
    \/ InitZonedFromDate
    \/ InitZonedFrom
    \/ InitZonedPair
    \/ InitConstruct
    \/ InitRelative
    \/ InitFromParts

Next ==
    \/ FromMap
    \/ FromBounds
    \/ Contains
    \/ Intersection
    \/ Union
    \/ Rescale
    \/ ToSubDateResolution
    \/ PeriodToSubDateResolution
    \/ DateRescale
    \/ Iter
    \/ IterNext
    \/ Add
    \/ Get
    \/ MissingPieces
    \/ SuccN
    \/ PredN
    \/ Succ
    \/ Pred
    \/ FromToMonotonic
    \/ FromDate
    \/ Start
    \/ WeekStart
    \/ WeekFromStr
    \/ ZonedFromDate
    \/ ZonedFrom
    \/ ZonedCompare
    \/ New
    \/ MaybeNew
    \/ FromSet
    \/ Relative
    \/ DaySubdivisonNew
    \/ AddPiece
    \/ GetAgain
    \/ FromParts

Spec == Init /\ [][Next]_vars

(***************************************************************************)
(* Claims.                                                                 *)
(***************************************************************************)
Returned(op) == pc = "done" /\ call.op = op

\* C1: from_map(S) returns exactly the maximal contiguous runs of S in ascending
\* order: the index sets of the returned ranges unite to S, consecutive ranges
\* neither overlap nor touch, and the empty set gives the empty list.
C1_FromMapMaximalRuns ==
    Returned("from_map") =>
        /\ UNION {to_indexes(ret[i]) : i \in 1 .. Len(ret)} = call.map
        /\ \A i \in 1 .. Len(ret) : ret[i].start.kind = call.kind
        /\ \A i \in 1 .. (Len(ret) - 1) :
               to_monotonic(end(ret[i])) + 1 < to_monotonic(ret[i + 1].start)
        /\ (call.map = {} => ret = <<>>)

\* C2: from_bounds(a, b), in either argument order, starts at the lower of a and
\* b, ends at the higher, and has length 1 + |index(a) - index(b)|, so that
\* from_bounds(a, b) = from_bounds(b, a).
C2_FromBoundsLowerToHigher ==
    Returned("from_bounds") =>
        /\ ret.start = MinP(call.a, call.b)
        /\ end(ret) = MaxP(call.a, call.b)
        /\ ret.len = 1 + Max(between(call.a, call.b), between(call.b, call.a))
        /\ ret = from_bounds(call.b, call.a)

\* C3: contains(range, o) is true exactly when [o.start, succ(o).start) is nested
\* within [range.start.start, succ(range.end).start), so a period that ends
\* exactly at the range's end boundary is reported as contained.
C3_ContainsIsNesting ==
    Returned("contains") =>
        (ret <=> /\ start_datetime(call.range.start) <= start_datetime(call.rhs)
                 /\ start_datetime(succ(call.rhs))
                        <= start_datetime(succ(end(call.range))))

\* C4: intersection(x, y) is the range max(x.start, y.start) .. min(x.end, y.end)
\* when max start <= min end and none otherwise; when defined, its index set is
\* the intersection of the index sets of x and y.
C4_Intersection ==
    Returned("intersection") =>
        LET lo == Max(to_monotonic(call.x.start), to_monotonic(call.y.start))
            hi == Min(to_monotonic(end(call.x)), to_monotonic(end(call.y)))
        IN  /\ ret.some <=> lo <= hi
            /\ ret.some =>
                   /\ ret.val.start = P(call.x.start.kind, lo)
                   /\ end(ret.val) = P(call.x.start.kind, hi)
                   /\ to_indexes(ret.val) = to_indexes(call.x) \cap to_indexes(call.y)
            /\ ~ret.some => to_indexes(call.x) \cap to_indexes(call.y) = {}

C4_Witness ==
    /\ Returned("intersection")
    /\ ret.some
    /\ ret.val # call.x
    /\ ret.val # call.y
    /\ ret.val.len >= 2

\* C5: union(x, y) is defined iff intersection(x, y) is; adjacent ranges that do
\* not overlap give no union; when defined the result is min(starts) ..
\* max(ends) and its index set is the union of the index sets of x and y.
C5_Union ==
    Returned("union") =>
        LET lo == Min(to_monotonic(call.x.start), to_monotonic(call.y.start))
            hi == Max(to_monotonic(end(call.x)), to_monotonic(end(call.y)))
        IN  /\ ret.some <=> intersection(call.x, call.y).some
            /\ ret.some <=> to_indexes(call.x) \cap to_indexes(call.y) # {}
            /\ call.y.start = succ(end(call.x)) => ~ret.some
            /\ ret.some =>
                   /\ ret.val.start = P(call.x.start.kind, lo)
                   /\ end(ret.val) = P(call.x.start.kind, hi)
                   /\ to_indexes(ret.val) = to_indexes(call.x) \cup to_indexes(call.y)

C5_Witness ==
    /\ Returned("union")
    /\ ret.some
    /\ ret.val.len > call.x.len
    /\ ret.val.len > call.y.len

C5_WitnessAdjacent ==
    /\ Returned("union")
    /\ call.y.start = succ(end(call.x))
    /\ ~ret.some

\* the Gregorian leap-year rule
IsLeapYear(y) == (y % 4 = 0) /\ ((y % 100 # 0) \/ (y % 400 = 0))

\* the number of days of a calendar year
DaysInYear(y) == IF IsLeapYear(y) THEN 366 ELSE 365

FinerKinds == {FiveMinute, Hour, DayK, MonthK}

\* C6: for a range r of whole years, rescale to a finer kind F in {FiveMinute,
\* Hour, Day, Month} and back to Year gives r, and rescale through an
\* intermediate finer kind F1 to F2 equals rescale to F2 directly.
C6_RescaleRoundTrip ==
    (Returned("rescale") /\ call.range.start.kind = YearK /\ Len(ret) = 2
         /\ ret[1].out \in FinerKinds
         /\ ret[2].out \in FinerKinds \cup {YearK}
         /\ Rank(ret[1].out) < Rank(ret[2].out)) =>
        /\ ret[2].out = YearK => ret[2].range = call.range
        /\ ret[2].range = rescale(call.range, ret[2].out)

C6_Witness ==
    /\ Returned("rescale")
    /\ call.range = TimeRange(P(YearK, 2024), 1)
    /\ Len(ret) = 2
    /\ ret[1].out = FiveMinute
    /\ ret[1].range.len = 366 * 288
    /\ ret[2].out = YearK
    /\ ret[2].range = call.range

\* C7: for a one-year range, rescale yields a range that starts at the first
\* target period of the year and whose length is the number of target periods
\* in that year: 12 months, the days of the year, 24 hours a day, 288
\* five-minute periods a day.
C7_RescaleYearLength ==
    (Returned("rescale") /\ call.range.start.kind = YearK /\ call.range.len = 1
         /\ Len(ret) = 1 /\ ret[1].out \in FinerKinds) =>
        LET y    == to_monotonic(call.range.start)
            out  == ret[1].out
            days == DaysInYear(y)
        IN  /\ ret[1].range.start.kind = out
            /\ start_datetime(ret[1].range.start) = timestamp(from_ymd_opt(y, 1, 1))
            /\ out = MonthK => ret[1].range = TimeRange(P(MonthK, 12 * y), 12)
            /\ out = DayK => ret[1].range.len = days
            /\ out = Hour => ret[1].range.len = 24 * days
            /\ out = FiveMinute => ret[1].range.len = 288 * days

C7_Witness ==
    /\ Returned("rescale")
    /\ call.range = TimeRange(P(YearK, 2024), 1)
    /\ Len(ret) = 1
    /\ ret[1].out = DayK
    /\ ret[1].range.len = 366

\* the range a rescale step was applied to
Previous == IF Len(ret) = 1 THEN call.range ELSE ret[Len(ret) - 1].range

\* an instant is aligned with a kind when a period of the kind starts at it
Aligned(kind, ts) == start_datetime(from_datetime(kind, ts)) = ts

\* C8: for a range whose boundaries do not align with Out-period boundaries,
\* rescale<Out> truncates: every Out period of the result lies inside the
\* input's instant span [start.start, succ(end).start); it never rounds outward.
C8_RescaleTruncatesInward ==
    (Returned("rescale") /\ Len(ret) >= 1) =>
        LET in  == Previous
            res == ret[Len(ret)]
            lo  == start_datetime(in.start)
            hi  == start_datetime(succ(end(in)))
        IN  (~Aligned(res.out, lo) \/ ~Aligned(res.out, hi)) =>
                /\ lo <= start_datetime(res.range.start)
                /\ start_datetime(succ(end(res.range))) <= hi

\* C9 as stated: to_sub_date_resolution runs from first_on_day(start date of
\* range.start) through last_on_day(start date of range.end), never empty.
C9_ToSubDateThroughStartOfEnd ==
    Returned("to_sub_date_resolution") =>
        /\ ret.start = first_on_day(call.sub, start(call.range.start))
        /\ end(ret) = last_on_day(call.sub, start(end(call.range)))
        /\ ret.len >= 1

\* the day after the last calendar date of a date-level period
DayAfter(p) == start(succ(p))

\* C9 amended: to_sub_date_resolution runs from first_on_day(start date of
\* range.start) through last_on_day(LAST calendar date of range.end), and the
\* result is never empty. The same holds of a single period.
C9_ToSubDateThroughEndOfEnd ==
    /\ Returned("to_sub_date_resolution") =>
           /\ ret.start = first_on_day(call.sub, start(call.range.start))
           /\ end(ret) = last_on_day(call.sub, DayAfter(end(call.range)) - 1)
           /\ ret.len >= 1
    /\ Returned("DateResolutionExt::to_sub_date_resolution") =>
           /\ ret.start = first_on_day(call.sub, start(call.period))
           /\ end(ret) = last_on_day(call.sub, DayAfter(call.period) - 1)
           /\ ret.len >= 1

C9_Witness ==
    /\ Returned("to_sub_date_resolution")
    /\ call.range.start.kind = MonthK
    /\ call.range.len = 2
    /\ call.sub = FiveMinute
    /\ ret.len > 59 * 288

\* C10 as stated: date-level rescale runs from Out::from_date(start date of the
\* first input period) through Out::from_date(start date of the last input
\* period).
C10_DateRescaleThroughStartOfLast ==
    Returned("DateResolutionExt::rescale") =>
        /\ ret.start = from_date(call.out, start(call.period))
        /\ end(ret) = from_date(call.out, start(call.period))

\* C10 amended: for a date-level period p and a shorter date-level kind Out,
\* p.rescale::<Out>() runs from Out::from_date(p.start()) through
\* Out::from_date(p.end()), p.end() being the LAST calendar date of p.
C10_DateRescaleThroughEndOfLast ==
    Returned("DateResolutionExt::rescale") =>
        /\ ret.start = from_date(call.out, start(call.period))
        /\ end(ret) = from_date(call.out, DayAfter(call.period) - 1)

C10_Witness ==
    /\ Returned("DateResolutionExt::rescale")
    /\ call.period.kind = MonthK
    /\ call.out = DayK
    /\ ret.len >= 28

\* C11: every pass of r.iter() yields at most r.len() periods, so it ends; a
\* finished pass has yielded exactly r.len() periods, the first r.start(), the
\* last r.end(), each the successor of the one before; and a later pass over
\* the same range yields what the first one did.
C11_IterYieldsTheRange ==
    call.op = "iter" =>
        \A i \in 1 .. Len(ret) :
            /\ Len(ret[i]) <= call.range.len
            /\ \A j \in 1 .. (Len(ret[i]) - 1) : ret[i][j + 1] = succ(ret[i][j])
            /\ (i < Len(ret) \/ pc = "done") =>
                /\ Len(ret[i]) = call.range.len
                /\ ret[i][1] = call.range.start
                /\ ret[i][Len(ret[i])] = end(call.range)
                /\ ret[i] = ret[1]

\* a second pass over a range of several periods has finished
C11_Witness ==
    /\ Returned("iter")
    /\ Len(ret) = MaxPasses
    /\ Len(ret[MaxPasses]) = MaxLen
    /\ MaxLen > 1

\* C12: get returns Hit of the empty map for the empty request; when every
\* requested key is in requests it returns Hit of exactly the cached entries
\* between the least and the greatest requested key; otherwise it returns Miss.
C12_GetHitOrMiss ==
    Returned("get") =>
        LET request == call.request
            within == {k \in DOMAIN data : \E lo \in request, hi \in request :
                                                lo <= k /\ k <= hi}
        IN  /\ request = {} => ret = Hit(EmptyMap)
            /\ (request # {} /\ request \subseteq requests) =>
                /\ ret.tag = "Hit"
                /\ DOMAIN ret.map = within
                /\ \A k \in within : ret.map[k] = data[k]
            /\ (request # {} /\ ~(request \subseteq requests)) => ret.tag = "Miss"

\* a hit that returns a cached key between the requested ones but not requested
C12_Witness ==
    /\ Returned("get")
    /\ ret.tag = "Hit"
    /\ \E k \in DOMAIN ret.map : k \notin call.request

\* C13: for a contiguous request, missing_pieces returns the maximal runs of
\* request \ known in ascending order: non-empty contiguous groups free of
\* known keys, each wholly below the next, together request \ known, and none
\* extendable by a missing neighbour.
C13_MissingPiecesMaximalRuns ==
    Returned("missing_pieces") =>
        LET missing == call.request \ call.known IN
        /\ \A i \in 1 .. Len(ret) :
            /\ ret[i] # {}
            /\ \A x \in ret[i], y \in ret[i] : \A z \in x .. y : z \in ret[i]
            /\ ret[i] \cap call.known = {}
            /\ \A x \in ret[i] :
                /\ (x - 1) \in missing => (x - 1) \in ret[i]
                /\ (x + 1) \in missing => (x + 1) \in ret[i]
        /\ \A i \in 1 .. Len(ret), j \in 1 .. Len(ret) :
            i < j => \A x \in ret[i], y \in ret[j] : x < y
        /\ UNION {ret[i] : i \in 1 .. Len(ret)} = missing

\* the example of the test: 1..10 with 2, 3, 7, 8 known
C13_Witness ==
    /\ Returned("missing_pieces")
    /\ call.request = 1 .. MaxPiece
    /\ call.known = {2, 3, 7, 8}
    /\ ret = <<{1}, {4, 5, 6}, 9 .. MaxPiece>>

\* C14: every add step completes; it unites request_range into requests,
\* stores every entry of its data (replacing a differing earlier value) and
\* leaves the other cached entries as they were.
C14_AddMergesAndOverwrites ==
    [][call'.op = "add" =>
        /\ pc' = "done"
        /\ requests' = requests \cup call'.request_range
        /\ DOMAIN data' = DOMAIN data \cup DOMAIN call'.data
        /\ \A k \in DOMAIN call'.data : data'[k] = call'.data[k]
        /\ \A k \in DOMAIN data \ DOMAIN call'.data : data'[k] = data[k]]_vars

\* an add that replaced a differing value and left another cached entry alone
C14_Witness ==
    /\ Returned("add")
    /\ ret.replaced # {}
    /\ DOMAIN data \ DOMAIN call.data # {}

\* C15: in every cache state reached by add calls, every key of data is in
\* requests.
C15_DataKeysAreRequested == IsCache => DOMAIN data \subseteq requests

\* C16: the cache starts empty, no step removes a key from requests or from
\* data, and a get step changes neither.
C16_CacheOnlyGrows ==
    /\ data = EmptyMap /\ requests = {}
    /\ [][/\ requests \subseteq requests'
          /\ DOMAIN data \subseteq DOMAIN data'
          /\ call'.op = "get" => (data' = data /\ requests' = requests)]_vars

\* a get on a cache that holds data and requests
C16_Witness ==
    /\ Returned("get")
    /\ DOMAIN data # {}
    /\ requests # {}

\* the period a step of ret started from
Before(i) == IF i = 1 THEN call.p ELSE ret[i - 1].val

\* C17: for every kind, Zoned included, succ_n moves the index up by n and
\* pred_n down by n; a step of 0 gives an equal period, and a pred after a
\* succ, or a succ after a pred, gives back the period it started from.
C17_StepsMoveTheIndex ==
    call.op = "step" =>
        \A i \in 1 .. Len(ret) :
            /\ ret[i].fn \in {"succ_n", "succ"} =>
                Monotonic_to_monotonic(ret[i].val)
                    = Monotonic_to_monotonic(Before(i)) + ret[i].n
            /\ ret[i].fn \in {"pred_n", "pred"} =>
                Monotonic_to_monotonic(ret[i].val)
                    = Monotonic_to_monotonic(Before(i)) - ret[i].n
            /\ ret[i].n = 0 => Eq(ret[i].val, Before(i))
            /\ (i > 1 /\ <<ret[i - 1].fn, ret[i].fn>> \in {<<"succ", "pred">>, <<"pred", "succ">>})
                => Eq(ret[i].val, Before(i - 1))

\* pred(succ(p)) was taken on a zoned period
C17_Witness ==
    /\ Returned("step")
    /\ IsZoned(call.p)
    /\ Len(ret) = 2
    /\ ret[1].fn = "succ"
    /\ ret[2].fn = "pred"

\* C18: for every plain kind from_monotonic and to_monotonic undo each other,
\* p < q exactly when the index of p is below that of q, and the period of
\* the lower index starts strictly earlier.
C18_MonotonicRoundTripAndOrder ==
    Returned("monotonic") =>
        /\ ret.index = call.i
        /\ ret.back = ret.p
        /\ ret.lt <=> (call.i < call.j)
        /\ (call.i < call.j) <=> (ret.starts[1] < ret.starts[2])

\* two months of negative index, the lower one first
C18_Witness ==
    /\ Returned("monotonic")
    /\ call.kind = MonthK
    /\ call.i < call.j
    /\ call.j < 0
    /\ ret.lt

\* C19: for every date d and every date-level kind, d lies between the start
\* and the end of from_date(d).
C19_FromDateContainsTheDate ==
    Returned("from_date") => (ret.start <= call.date /\ call.date <= ret.end)

\* C20: Day(i) starts i days after 0000-01-01, Month(i) on the first of month
\* 1 + (i mod 12) of year floor(i / 12), Quarter(i) on the first day of
\* quarter 1 + (i mod 4) of year floor(i / 4), for negative i too, with the
\* epoch literals of the tests; and from_date of the start gives i back.
C20_StartOfIndex ==
    Returned("start") =>
        LET i == call.i
            ymd == <<year_of(ret.start), month_of(ret.start), day_of(ret.start)>>
        IN  /\ call.kind = DayK => ret.start - i = from_ymd_opt(0, 1, 1)
            /\ (call.kind = DayK /\ i = 0) => ymd = <<0, 1, 1>>
            /\ (call.kind = DayK /\ i = -1) => ymd = <<-1, 12, 31>>
            /\ call.kind = MonthK => ymd = <<i \div 12, 1 + (i % 12), 1>>
            /\ (call.kind = MonthK /\ i = 24240) => ymd = <<2020, 1, 1>>
            /\ (call.kind = MonthK /\ i = -1) => ymd = <<-1, 12, 1>>
            /\ call.kind = QuarterK => ymd = <<i \div 4, 1 + 3 * (i % 4), 1>>
            /\ (call.kind = QuarterK /\ i = -1) => ymd = <<-1, 10, 1>>
            /\ ret.back = from_monotonic(call.kind, i)

\* Quarter -1 starts on -0001-10-01 and from_date gives -1 back
C20_Witness ==
    /\ Returned("start")
    /\ call.kind = QuarterK
    /\ call.i = -1
    /\ <<year_of(ret.start), month_of(ret.start), day_of(ret.start)>> = <<-1, 10, 1>>
    /\ ret.back.idx = -1

\* C21: every week of every start day D starts on weekday D and its successor
\* starts 7 days later; the Monday week parsed from "Week starting 2021-12-06"
\* starts on 2021-12-06, its successor on 2021-12-13, and the predecessor of
\* that on 2021-12-06.
C21_WeekStartsOnItsDay ==
    /\ Returned("week") =>
        /\ weekday(ret.start) = call.wd
        /\ ret.next = ret.start + 7
    /\ (Returned("week_from_str") /\ call.wd = 0 /\ call.date = from_ymd_opt(2021, 12, 6)) =>
        /\ ret.ok
        /\ ret.val.start = from_ymd_opt(2021, 12, 6)
        /\ ret.val.next = from_ymd_opt(2021, 12, 13)
        /\ ret.val.back = from_ymd_opt(2021, 12, 6)

\* a Wednesday-start week of negative index
C21_Witness ==
    /\ Returned("week")
    /\ call.wd = 2
    /\ call.n < 0
    /\ weekday(ret.start) = 2

\* the offsets at which the wall clock of the zone reads m minutes past the
\* midnight of the date
AtMinute(date, zone, m) == and_local_timezone(timestamp(date) + m * 60, zone)

\* C22: when the local midnight of the date occurs twice, the date-level
\* Zoned value carries the offset of the earlier occurrence.
C22_AmbiguousMidnightTakesEarlierOffset ==
    (Returned("zoned_from_date") /\ Len(AtMinute(call.date, call.zone, 0)) = 2) =>
        /\ IsZoned(ret)
        /\ ret.current_offset = AtMinute(call.date, call.zone, 0)[1]

\* C27: when the local midnight of the date falls in a gap, the offset is that
\* of the first minute of the day, out of a full day of minutes, that has a
\* UTC instant; only when no minute of the day has one does the call fail.
C27_GapScanCoversTheDay ==
    (Returned("zoned_from_date") /\ AtMinute(call.date, call.zone, 0) = <<>>) =>
        LET resolvable == {m \in 0 .. 1439 : AtMinute(call.date, call.zone, m) # <<>>}
        IN  IF resolvable = {}
            THEN ret = Panic
            ELSE /\ IsZoned(ret)
                 /\ ret.current_offset = AtMinute(call.date, call.zone, SetMin(resolvable))[1]

\* C23: a succ_n or pred_n step on a Zoned value moves the index of the
\* wrapped period and leaves its kind, the zone and the stored offset as they
\* were.
C23_ZonedStepKeepsZoneAndOffset ==
    call.op = "step" =>
        \A i \in 1 .. Len(ret) :
            IsZoned(Before(i)) =>
                /\ ret[i].val.zone = Before(i).zone
                /\ ret[i].val.current_offset = Before(i).current_offset
                /\ ret[i].val.local_resolution.kind = Before(i).local_resolution.kind
                /\ ret[i].val.local_resolution.idx - Before(i).local_resolution.idx
                    = (IF ret[i].fn \in {"succ_n", "succ"} THEN ret[i].n ELSE -ret[i].n)

\* succ_n(2) then pred_n(1) on a value zoned at +10:00
C23_Witness ==
    /\ Returned("step")
    /\ IsZoned(call.p)
    /\ call.p.zone = FixedOffset(36000)
    /\ Len(ret) = 2
    /\ <<ret[1].fn, ret[1].n>> = <<"succ_n", 2>>
    /\ <<ret[2].fn, ret[2].n>> = <<"pred_n", 1>>

\* C24: for N of 1, 5, 30 and 60 minutes and every instant t whose wall-clock
\* time in the zone is on the N-minute grid, the start of Zoned::from(t) is t.
C24_ZonedFromRoundTrip ==
    Returned("zoned_from") => ret.local_start_datetime = call.t

\* an hour that starts in the later pass of a repeated hour
C24_Witness ==
    /\ Returned("zoned_from")
    /\ call.kind = Hour
    /\ call.t >= call.zone.at
    /\ Len(and_local_timezone(call.t + offset_from_utc(call.zone, call.t), call.zone)) = 2
    /\ ret.local_start_datetime = call.t

\* C29: two Zoned values of one kind and zone are equal exactly when their
\* indexes are, and ordered as their indexes; a value reached by stepping
\* equals the one built from the local time of its period and starts at the
\* same instant.
C29_ZonedOrderIsIndexOrder ==
    Returned("zoned_pair") =>
        /\ ret.eq <=> (Zoned_to_monotonic(ret.a) = Zoned_to_monotonic(ret.b))
        /\ ret.lt <=> (Zoned_to_monotonic(ret.a) < Zoned_to_monotonic(ret.b))
        /\ Zoned_eq(ret.stepped, ret.b)
        /\ Zoned_local_start_datetime(ret.stepped) = Zoned_local_start_datetime(ret.b)

\* the ranges the call has produced
Produced ==
    IF pc # "done" THEN {}
    ELSE CASE call.op \in {"new", "from_bounds", "to_sub_date_resolution",
                           "DateResolutionExt::to_sub_date_resolution",
                           "DateResolutionExt::rescale"} -> {ret}
           [] call.op \in {"maybe_new", "from_set", "intersection", "union"} ->
                IF ret.some THEN {ret.val} ELSE {}
           [] call.op = "from_map" -> {ret[i] : i \in 1 .. Len(ret)}
           [] call.op = "rescale" -> {ret[i].range : i \in 1 .. Len(ret)}
           [] OTHER -> {}

\* C25: every range produced by a constructor or an operation holds at least
\* one period; maybe_new with length 0 and from_set of the empty set produce
\* no range.
C25_RangesAreNeverEmpty ==
    /\ \A r \in Produced : r.len >= 1
    /\ (Returned("maybe_new") /\ call.len = 0) => ret = None
    /\ (Returned("from_set") /\ call.set = {}) => ret = None

\* maybe_new was asked for a range of length 0
C25_Witness ==
    /\ Returned("maybe_new")
    /\ call.len = 0
    /\ ret = None

\* C26: for N dividing 1440 the index of p.relative() is the 1-based slot of
\* p in its UTC day: within 1 ..= 1440/N, 1 for the first period of a day,
\* i + 1 after i < 1440/N steps, unchanged by whole days of steps; new(k) is
\* None for k > 1440/N and otherwise the subdivision of index k; and
\* relative().on_date(occurs_on_date()) is p.
C26_RelativeIsSlotOfTheDay ==
    /\ Returned("relative") =>
        LET slots == 1440 \div call.kind.par IN
        /\ ret.index \in 1 .. slots
        /\ ret.index = (call.i % slots) + 1
        /\ ret.on_date = ret.p
        /\ DaySubdivison_new(call.kind, ret.index) = Some(ret.relative)
    /\ Returned("DaySubdivison::new") =>
        LET slots == 1440 \div call.kind.par IN
        /\ call.period_no > slots => ret = None
        /\ call.period_no <= slots => (ret.some /\ ret.index = call.period_no)

\* the last half hour of a day before 1970
C26_Witness ==
    /\ Returned("relative")
    /\ call.kind = HalfHour
    /\ call.day < 0
    /\ call.i = 47
    /\ ret.index = 48

\* C28: when get(request) is a Miss, adding every piece of the Miss, with any
\* data, makes the next get(request) a Hit; and right after add(R, D) a get
\* of any non-empty subset of R is a Hit.
C28_AddingTheMissingPiecesGivesAHit ==
    /\ [](call.op = "get_again" => ret.tag = "Hit")
    /\ [][(/\ call.op = "add"
           /\ call'.op = "get"
           /\ call'.request # {}
           /\ call'.request \subseteq call.request_range) => ret'.tag = "Hit"]_vars

\* a request missed in two pieces, around a key the cache knew, then filled
C28_Witness ==
    /\ call.op = "get_again"
    /\ call.request = {1, 2, 3}
    /\ Len(call.pieces) = 2
    /\ ret.tag = "Hit"
    /\ DOMAIN ret.map # {1, 2, 3}

\* C30: Month::from_parts(y, m) is the month that starts on the first day of
\* month m of year y, the month from_date gives for a date in it, of index
\* 12 * y + m - 1.
C30_FromPartsIsTheMonthOfTheYear ==
    Returned("from_parts") =>
        /\ ret.start = from_ymd_opt(call.year, call.month, 1)
        /\ ret.month = from_date(MonthK, from_ymd_opt(call.year, call.month, 15))
        /\ ret.month.idx = 12 * call.year + call.month - 1

====
